---- MODULE Spec2Model ----
(***************************************************************************)
(* Model of metrics-util/src/histogram.rs: a bucketed histogram with       *)
(* cumulative ("less than or equal to") bucket counts, a single-sample     *)
(* recording path (record) and a batch recording path (record_many).       *)
(*                                                                         *)
(* The u64 counters are modelled as naturals; the guards of the recording  *)
(* actions cap the number of samples at MaxCount, so every counter stays   *)
(* far below 2^64 and no addition of the program overflows in the model.   *)
(***************************************************************************)
EXTENDS Naturals, Sequences, FiniteSets, TLC

\* ---------------------------------------------------------------- bounds
MaxBounds == 3      \* longest bound list passed to Histogram::new
MaxBound  == 1      \* largest bound value; samples range over 0..MaxBound+1
MaxBatch  == 3      \* longest sample sequence passed to record_many
MaxCount  == 3      \* cap on the number of samples recorded in one run

VARIABLES hist, phase, history, lastOp, newArg

vars == <<hist, phase, history, lastOp, newArg>>

\* ------------------------------------------------------- Option<Histogram>
None == <<>>
Some(h) == <<h>>
IsSome(o) == Len(o) = 1
Unwrap(o) == o[1]

\* ------------------------------------------------------------ input sets
BoundVals == 0..MaxBound
Samples == 0..(MaxBound + 1)

SeqsUpTo(S, n) == UNION {[1..k -> S] : k \in 0..n}

BoundLists == SeqsUpTo(BoundVals, MaxBounds)
Batches == SeqsUpTo(Samples, MaxBatch)

\* ------------------------------------------------------------ Histogram
\* Histogram::new: None for an empty slice, otherwise zeroed counters, one
\* bucket per bound, and the bounds copied in the order given.
NewSingleRejected(bounds) ==
    IF Len(bounds) <= 1
    THEN None
    ELSE Some([count |-> 0,
               bounds |-> bounds,
               buckets |-> [i \in 1..Len(bounds) |-> 0],
               sum |-> 0])

NewOp(bounds) ==
    IF Len(bounds) = 0
    THEN None
    ELSE Some([count |-> 0,
               bounds |-> bounds,
               buckets |-> [i \in 1..Len(bounds) |-> 0],
               sum |-> 0])

\* Histogram::sum, Histogram::count, Histogram::buckets
SumOf(h) == h.sum
CountOf(h) == h.count
Buckets(h) == [i \in 1..Len(h.bounds) |-> <<h.bounds[i], h.buckets[i]>>]

\* The comparison `sample <= *bucket` used by both recording paths.
MatchesStrict(sample, bound) == sample < bound

Matches(sample, bound) == sample <= bound

\* Histogram::record: sum and count first, then every bucket whose bound
\* matches the sample is incremented (no break).
RecordSkipUnbucketed(h, sample) ==
    IF \E i \in 1..Len(h.bounds) : Matches(sample, h.bounds[i])
    THEN [h EXCEPT !.sum = @ + sample,
                   !.count = @ + 1,
                   !.buckets = [i \in DOMAIN @ |->
                                  IF Matches(sample, h.bounds[i])
                                  THEN @[i] + 1 ELSE @[i]]]
    ELSE h

RecordFirstOnly(h, sample) ==
    [h EXCEPT !.sum = @ + sample,
              !.count = @ + 1,
              !.buckets = [i \in DOMAIN @ |->
                             IF /\ Matches(sample, h.bounds[i])
                                /\ \A j \in 1..(i - 1) : ~Matches(sample, h.bounds[j])
                             THEN @[i] + 1 ELSE @[i]]]

RecordOp(h, sample) ==
    [h EXCEPT !.sum = @ + sample,
              !.count = @ + 1,
              !.buckets = [i \in DOMAIN @ |->
                             IF Matches(sample, h.bounds[i])
                             THEN @[i] + 1 ELSE @[i]]]

FirstMatchOffByOne(bounds, sample) ==
    IF \E i \in 1..(Len(bounds) - 1) : Matches(sample, bounds[i])
    THEN CHOOSE i \in 1..(Len(bounds) - 1) :
            /\ Matches(sample, bounds[i])
            /\ \A j \in 1..(i - 1) : ~Matches(sample, bounds[j])
    ELSE 0

\* The inner loop of record_many: index of the first bound matching the
\* sample (the loop breaks there), 0 when no bound matches.
FirstMatch(bounds, sample) ==
    IF \E i \in 1..Len(bounds) : Matches(sample, bounds[i])
    THEN CHOOSE i \in 1..Len(bounds) :
            /\ Matches(sample, bounds[i])
            /\ \A j \in 1..(i - 1) : ~Matches(sample, bounds[j])
    ELSE 0

\* The outer loop of record_many from sample k on: acc holds the local
\* bucketed vector, sum and count.
RECURSIVE Classify(_, _, _, _)
Classify(bounds, samples, k, acc) ==
    IF k > Len(samples)
    THEN acc
    ELSE LET idx == FirstMatch(bounds, samples[k])
             nb == IF idx = 0 THEN acc.bucketed
                   ELSE [acc.bucketed EXCEPT ![idx] = @ + 1]
         IN Classify(bounds, samples, k + 1,
                     [bucketed |-> nb,
                      sum |-> acc.sum + samples[k],
                      count |-> acc.count + 1])

\* The propagation loop of record_many: bucketed[idx + 1] += bucketed[idx]
\* for idx from 0 to len - 2 (indices 1..len-1 here).
RECURSIVE PropagateFrom(_, _)
PropagateFrom(bucketed, idx) ==
    IF idx > Len(bucketed) - 1
    THEN bucketed
    ELSE PropagateFrom([bucketed EXCEPT ![idx + 1] = @ + bucketed[idx]], idx + 1)

PropagateNone(bucketed) == bucketed

PropagateOneStep(bucketed) ==
    [i \in DOMAIN bucketed |->
        IF i >= 2 THEN bucketed[i] + bucketed[i - 1] ELSE bucketed[i]]

Propagate(bucketed) ==
    IF Len(bucketed) >= 2 THEN PropagateFrom(bucketed, 1) ELSE bucketed

\* Histogram::record_many: classify, propagate, merge.
RECURSIVE RecordEach(_, _, _)
RecordEach(h, samples, k) ==
    IF k > Len(samples) THEN h
    ELSE RecordEach(RecordOp(h, samples[k]), samples, k + 1)

RecordManyAllMatch(h, samples) == RecordEach(h, samples, 1)

\* The samples before the first one that no bound matches.
RECURSIVE BucketedPrefix(_, _, _)
BucketedPrefix(bounds, samples, k) ==
    IF k > Len(samples) \/ FirstMatch(bounds, samples[k]) = 0
    THEN SubSeq(samples, 1, k - 1)
    ELSE BucketedPrefix(bounds, samples, k + 1)

RecordManyStopAtUnbucketed(h, samples) ==
    RecordEach(h, BucketedPrefix(h.bounds, samples, 1), 1)

RecordManyOp(h, samples) ==
    LET zero == [i \in 1..Len(h.buckets) |-> 0]
        acc == Classify(h.bounds, samples, 1,
                        [bucketed |-> zero, sum |-> 0, count |-> 0])
        bucketed == Propagate(acc.bucketed)
    IN [h EXCEPT !.buckets = [i \in DOMAIN @ |-> @[i] + bucketed[i]],
                 !.sum = @ + acc.sum,
                 !.count = @ + acc.count]

\* ------------------------------------------------------------- the calls
\* hist    the Option<Histogram> the caller holds (None before new)
\* phase   "start" before Histogram::new has been called, "built" after
\* history every sample handed to record / record_many so far, in order
\* lastOp  the name of the most recent call
\* newArg  the slice handed to the most recent Histogram::new
Init ==
    /\ hist = None
    /\ phase = "start"
    /\ history = <<>>
    /\ lastOp = "none"
    /\ newArg = <<>>

New(bounds) ==
    /\ phase = "start"
    /\ hist' = NewOp(bounds)
    /\ phase' = "built"
    /\ lastOp' = "new"
    /\ newArg' = bounds
    /\ UNCHANGED history

Record(sample) ==
    /\ phase = "built"
    /\ IsSome(hist)
    /\ Len(history) < MaxCount
    /\ hist' = Some(RecordOp(Unwrap(hist), sample))
    /\ history' = Append(history, sample)
    /\ lastOp' = "record"
    /\ UNCHANGED <<phase, newArg>>

RecordMany(samples) ==
    /\ phase = "built"
    /\ IsSome(hist)
    /\ Len(history) + Len(samples) <= MaxCount
    /\ hist' = Some(RecordManyOp(Unwrap(hist), samples))
    /\ history' = history \o samples
    /\ lastOp' = "record_many"
    /\ UNCHANGED <<phase, newArg>>

Next ==
    \/ \E bounds \in BoundLists : New(bounds)
    \/ \E sample \in Samples : Record(sample)
    \/ \E samples \in Batches : RecordMany(samples)

Spec == Init /\ [][Next]_vars

\* ------------------------------------------------------ tests::test_histogram
\* The test of the source file: new(&[]) is None, then new(&[10, 25, 100]),
\* record_many(&values), record(89).  The batch ranges over the subsequences
\* of the test's values, the test's own vector among them.
TestBounds == <<10, 25, 100>>
TestValues == <<3, 2, 6, 12, 56, 82, 202, 100, 29>>
TestSample == 89

RECURSIVE Pick(_, _, _)
Pick(s, I, k) ==
    IF k > Len(s) THEN <<>>
    ELSE (IF k \in I THEN <<s[k]>> ELSE <<>>) \o Pick(s, I, k + 1)

SubSeqs(s) == {Pick(s, I, 1) : I \in SUBSET (1..Len(s))}

TestNewEmpty ==
    /\ phase = "start"
    /\ hist' = NewOp(<<>>)
    /\ phase' = "checked"
    /\ lastOp' = "new"
    /\ newArg' = <<>>
    /\ UNCHANGED history

TestNew ==
    /\ phase = "checked"
    /\ hist = None
    /\ hist' = NewOp(TestBounds)
    /\ phase' = "built"
    /\ lastOp' = "new"
    /\ newArg' = TestBounds
    /\ UNCHANGED history

TestRecordMany(values) ==
    /\ phase = "built"
    /\ IsSome(hist)
    /\ hist' = Some(RecordManyOp(Unwrap(hist), values))
    /\ history' = history \o values
    /\ phase' = "batched"
    /\ lastOp' = "record_many"
    /\ UNCHANGED newArg

TestRecord ==
    /\ phase = "batched"
    /\ hist' = Some(RecordOp(Unwrap(hist), TestSample))
    /\ history' = Append(history, TestSample)
    /\ phase' = "done"
    /\ lastOp' = "record"
    /\ UNCHANGED newArg

TestNext ==
    \/ TestNewEmpty
    \/ TestNew
    \/ \E values \in SubSeqs(TestValues) : TestRecordMany(values)
    \/ TestRecord

TestSpec == Init /\ [][TestNext]_vars

\* ------------------------------------------------------------ vocabulary
\* H: the histogram held; in a step, Post is the histogram after it and Arg
\* the samples the step handed to record / record_many.
H == Unwrap(hist)
Post == Unwrap(hist')
Arg == SubSeq(history', Len(history) + 1, Len(history'))

Ascending(bounds) == \A i \in 1..(Len(bounds) - 1) : bounds[i] <= bounds[i + 1]

RECURSIVE SumSeq(_)
SumSeq(s) == IF Len(s) = 0 THEN 0 ELSE s[1] + SumSeq(Tail(s))

CountLeq(s, bound) == Cardinality({k \in 1..Len(s) : s[k] <= bound})

ExceedsAll(sample, bounds) == \A i \in 1..Len(bounds) : sample > bounds[i]

Perms(s) == {[i \in 1..Len(s) |-> s[p[i]]] : p \in Permutations(1..Len(s))}

Fresh(bounds) == Unwrap(NewOp(bounds))

View(h) == <<SumOf(h), CountOf(h), Buckets(h)>>

\* ---------------------------------------------------------------- claims

\* C1: for ascending bounds, from any reachable state and for every finite
\* sample sequence (the empty one and one-bound lists included), a
\* record_many(samples) step ends in exactly the state that one record call
\* per element of samples, in sequence, ends in from the same state.
C1_RecordManyEqualsRecords ==
    [][(/\ IsSome(hist)
        /\ lastOp' = "record_many"
        /\ Ascending(H.bounds))
          => Post = RecordEach(H, Arg, 1)]_vars

C1_Witness ==
    /\ lastOp = "record_many"
    /\ Ascending(H.bounds)
    /\ Len(H.bounds) >= 2
    /\ H.bounds[1] < H.bounds[Len(H.bounds)]
    /\ Len(history) >= 3
    /\ \E k \in 1..Len(history) : history[k] <= H.bounds[1]
    /\ \E k \in 1..Len(history) :
          /\ history[k] > H.bounds[1]
          /\ history[k] <= H.bounds[Len(H.bounds)]
    /\ \E k \in 1..Len(history) : ExceedsAll(history[k], H.bounds)

C3_CountAndSumTrackAllSamples ==
    /\ [](IsSome(hist) =>
            /\ CountOf(H) = Len(history)
            /\ SumOf(H) = SumSeq(history))
    /\ [][(/\ IsSome(hist)
           /\ lastOp' \in {"record", "record_many"}
           /\ Len(Arg) = 1
           /\ ExceedsAll(Arg[1], H.bounds))
             => /\ CountOf(Post) = CountOf(H) + 1
                /\ SumOf(Post) = SumOf(H) + Arg[1]
                /\ Post.buckets = H.buckets]_vars

C3_Witness ==
    /\ IsSome(hist)
    /\ ~Ascending(H.bounds)
    /\ lastOp = "record"
    /\ Len(history) >= 3
    /\ ExceedsAll(history[Len(history)], H.bounds)
    /\ \E i \in 1..Len(H.bounds) : H.buckets[i] > 0

C5_NewNoneIffEmpty ==
    lastOp = "new" =>
        /\ (hist = None) <=> (Len(newArg) = 0)
        /\ Len(newArg) > 0 =>
              /\ CountOf(H) = 0
              /\ SumOf(H) = 0
              /\ H.bounds = newArg
              /\ Len(H.buckets) = Len(newArg)
              /\ \A i \in 1..Len(newArg) : H.buckets[i] = 0

C5_Witness ==
    /\ lastOp = "new"
    /\ IsSome(hist)
    /\ Len(newArg) = 1

\* C6: for ascending bounds, in every state reached by record and
\* record_many calls the bucket counts are non-decreasing along the index.
C6_BucketsNonDecreasing ==
    (IsSome(hist) /\ Ascending(H.bounds))
        => \A i \in 1..(Len(H.buckets) - 1) : H.buckets[i] <= H.buckets[i + 1]

C6_Witness ==
    /\ IsSome(hist)
    /\ Ascending(H.bounds)
    /\ Len(H.buckets) >= 3
    /\ H.buckets[1] > 0
    /\ H.buckets[1] < H.buckets[Len(H.buckets)]
    /\ H.buckets[Len(H.buckets)] < CountOf(H)
    /\ lastOp = "record_many"

\* C7: for ascending bounds, whenever every sample recorded so far is less
\* than or equal to the last bound, count() equals the last bucket's count.
C7_CountEqualsLastBucket ==
    (/\ IsSome(hist)
     /\ Ascending(H.bounds)
     /\ \A k \in 1..Len(history) : history[k] <= H.bounds[Len(H.bounds)])
        => CountOf(H) = H.buckets[Len(H.buckets)]

C7_Witness ==
    /\ IsSome(hist)
    /\ Ascending(H.bounds)
    /\ Len(H.bounds) >= 2
    /\ Len(history) >= 3
    /\ \A k \in 1..Len(history) : history[k] <= H.bounds[Len(H.bounds)]
    /\ \E k \in 1..Len(history) : history[k] = H.bounds[Len(H.bounds)]
    /\ \E k \in 1..Len(history) : history[k] <= H.bounds[1]
    /\ H.bounds[1] < H.bounds[Len(H.bounds)]
    /\ lastOp = "record_many"

\* C8: with bounds [10, 25, 100], record_many([3, 2, 6, 12, 56, 82, 202,
\* 100, 29]) followed by record(89) leaves buckets() = (10, 3), (25, 4),
\* (100, 9), count() = 10 and sum() = 581; whatever the batch, the batch
\* path followed by the single path leaves cumulative counters.
C8_TestScenario ==
    phase = "done" =>
        /\ history = Append(TestValues, TestSample) =>
              /\ Buckets(H) = <<<<10, 3>>, <<25, 4>>, <<100, 9>>>>
              /\ CountOf(H) = 10
              /\ SumOf(H) = 581
        /\ CountOf(H) = Len(history)
        /\ \A i \in 1..Len(H.bounds) :
              H.buckets[i] = CountLeq(history, H.bounds[i])

C8_Witness ==
    /\ phase = "done"
    /\ history = Append(TestValues, TestSample)
    /\ lastOp = "record"

\* C9: for ascending bounds, every permutation of the samples recorded so
\* far, applied to a fresh histogram through record_many or through one
\* record call per element, yields the same sum(), count() and buckets().
C9_OrderIndependent ==
    (IsSome(hist) /\ Ascending(H.bounds)) =>
        \A q \in Perms(history) :
            /\ View(RecordManyOp(Fresh(H.bounds), q)) = View(H)
            /\ View(RecordEach(Fresh(H.bounds), q, 1)) = View(H)

C9_Witness ==
    /\ IsSome(hist)
    /\ Ascending(H.bounds)
    /\ Len(H.bounds) >= 2
    /\ H.bounds[1] < H.bounds[Len(H.bounds)]
    /\ lastOp = "record_many"
    /\ Len(history) >= 3
    /\ history[1] > history[2]
    /\ history[2] < history[3]
    /\ ExceedsAll(history[1], H.bounds)
    /\ history[2] <= H.bounds[1]

\* C10: for every bound list with an adjacent pair bounds[i] > bounds[i+1]
\* there is a sample, bounds[i] for one, on which record_many([sample]) and
\* record(sample), applied to equal histograms, end with different bucket
\* counts.
C10_DivergeWhenNotAscending ==
    /\ [](IsSome(hist) =>
            /\ \A i \in 1..(Len(H.bounds) - 1) :
                  H.bounds[i] > H.bounds[i + 1] =>
                      RecordManyOp(H, <<H.bounds[i]>>).buckets
                          # RecordOp(H, H.bounds[i]).buckets
            /\ ~Ascending(H.bounds) =>
                  \E s \in Samples :
                      RecordManyOp(H, <<s>>).buckets # RecordOp(H, s).buckets)
    /\ [][(/\ IsSome(hist)
           /\ lastOp' = "record_many"
           /\ Len(Arg) = 1
           /\ \E i \in 1..(Len(H.bounds) - 1) :
                 /\ H.bounds[i] > H.bounds[i + 1]
                 /\ Arg[1] = H.bounds[i])
             => Post.buckets # RecordOp(H, Arg[1]).buckets]_vars

C10_Witness ==
    /\ IsSome(hist)
    /\ ~Ascending(H.bounds)
    /\ lastOp = "record_many"
    /\ Len(history) >= 2
    /\ \E i \in 1..(Len(H.bounds) - 1) :
          /\ H.bounds[i] > H.bounds[i + 1]
          /\ history[Len(history)] = H.bounds[i]
          /\ H.buckets[i + 1] > CountLeq(history, H.bounds[i + 1])

====
